---- MODULE Spec2Model ----
(***************************************************************************)
(* Model of src/TLE_gpt.py: one run of the Streamlit script                *)
(*   fetch -> parse_tle_blocks -> perigee filter loop -> export text.      *)
(*                                                                         *)
(* A text (Python str) is a sequence of one-character strings.  Python     *)
(* floats are modelled by exact rationals <<numerator, denominator>>       *)
(* (denominator > 0); rounding is not modelled.                            *)
(***************************************************************************)
EXTENDS Integers, Sequences, FiniteSets, TLC

VARIABLES
    pc,            \* position of the script run
    layout,        \* structure of the text the catalog server answered with
    raw_tle,       \* raw_tle          (lines 132/139)
    fetches,       \* number of requests.get calls made by this run
    st_error,      \* message given to st.error, "" when none
    perigee_max_km,\* sidebar slider  (line 68)
    name_filter,   \* sidebar text    (line 72)
    lines,         \* parse_tle_blocks: lines
    i,             \* parse_tle_blocks: cursor i
    out,           \* parse_tle_blocks: out
    all_blocks,    \* all_blocks       (line 144)
    idx,           \* number of records the filter loop has finished
    filtered,      \* filtered         (line 150)
    export_text    \* export_text.getvalue()

vars == <<pc, layout, raw_tle, fetches, st_error, perigee_max_km, name_filter,
          lines, i, out, all_blocks, idx, filtered, export_text>>

(***************************************************************************)
(* Bounds                                                                  *)
(***************************************************************************)
\* largest number of chunks (blocks or single lines) in a server answer
MaxChunks == 3

(***************************************************************************)
(* Python str operations                                                   *)
(***************************************************************************)
NL == "\n"
CR == "\r"
SP == " "

\* characters str.strip() removes (those of the model's alphabet)
IsSpace(c) == c \in {SP, "\t", NL, CR}

RECURSIVE SplitFrom(_, _, _, _)
SplitFrom(t, k, cur, acc) ==
    IF k > Len(t)
    THEN IF cur = <<>> THEN acc ELSE Append(acc, cur)
    ELSE IF t[k] = CR /\ k < Len(t) /\ t[k + 1] = NL
         THEN SplitFrom(t, k + 2, <<>>, Append(acc, cur))
         ELSE IF t[k] \in {NL, CR}
              THEN SplitFrom(t, k + 1, <<>>, Append(acc, cur))
              ELSE SplitFrom(t, k + 1, Append(cur, t[k]), acc)

\* str.splitlines(): breaks at \n, \r and \r\n, no empty last line
splitlines(t) == SplitFrom(t, 1, <<>>, <<>>)

RECURSIVE lstrip(_)
lstrip(s) ==
    IF s # <<>> /\ IsSpace(Head(s)) THEN lstrip(Tail(s)) ELSE s

RECURSIVE rstrip(_)
rstrip(s) ==
    IF s # <<>> /\ IsSpace(s[Len(s)]) THEN rstrip(SubSeq(s, 1, Len(s) - 1)) ELSE s

\* str.strip()
strip(s) == rstrip(lstrip(s))

\* str.startswith(p)
startswith(s, p) == Len(s) >= Len(p) /\ SubSeq(s, 1, Len(p)) = p

LowerChar(c) ==
    CASE c = "A" -> "a"
      [] c = "B" -> "b"
      [] c = "C" -> "c"
      [] OTHER -> c

\* str.lower()
lower(s) == [k \in 1..Len(s) |-> LowerChar(s[k])]

\* needle in hay
contains(hay, needle) ==
    \E k \in 0..(Len(hay) - Len(needle)) :
        SubSeq(hay, k + 1, k + Len(needle)) = needle

RECURSIVE join(_, _)
\* sep.join(parts)
join(sep, parts) ==
    IF parts = <<>> THEN <<>>
    ELSE IF Len(parts) = 1 THEN parts[1]
    ELSE parts[1] \o sep \o join(sep, Tail(parts))

(***************************************************************************)
(* Exact rational arithmetic standing for Python float arithmetic          *)
(***************************************************************************)
Abs(n) == IF n < 0 THEN -n ELSE n

RECURSIVE GCD(_, _)
GCD(a, b) == IF b = 0 THEN a ELSE GCD(b, a % b)

Rat(n, d) == LET g == GCD(Abs(n), d) IN <<n \div g, d \div g>>

RatMul(x, y) ==
    LET g1 == GCD(Abs(x[1]), y[2])
        g2 == GCD(Abs(y[1]), x[2])
    IN  Rat((x[1] \div g1) * (y[1] \div g2), (x[2] \div g2) * (y[2] \div g1))

RatSub(x, y) ==
    LET g == GCD(x[2], y[2])
        l == (x[2] \div g) * y[2]
    IN  Rat(x[1] * (l \div x[2]) - y[1] * (l \div y[2]), l)

RatLeq(x, y) == x[1] * y[2] <= y[1] * x[2]

RatOfInt(n) == <<n, 1>>

(***************************************************************************)
(* perigee_alt_km_from_tle                                                 *)
(***************************************************************************)
\* EARTH_RADIUS_KM = 6378.137
EARTH_RADIUS_KM == <<6378137, 1000>>

\* EarthSatellite(line1, line2, "sat", ts).model of the skyfield library:
\* the element set decoded from the lines, or an exception.  The library is
\* outside the repository; the model knows it on the lines the model's inputs
\* use: the text after the "2 " marker stands for the fixed-width fields of
\* line 2, a non-numeric text raises, line 1 carries no element used here.
\*   a    semi-major axis in Earth radii,   ecco   eccentricity
SatModel(line1, line2) ==
    LET body == SubSeq(line2, 3, Len(line2)) IN
    CASE body = <<"5">> -> [raised |-> FALSE, a |-> <<6578137, 6378137>>, ecco |-> <<0, 1>>]
      [] body = <<"6">> -> [raised |-> FALSE, a |-> <<6579137, 6378137>>, ecco |-> <<0, 1>>]
      [] body = <<"7">> -> [raised |-> FALSE, a |-> <<2, 1>>, ecco |-> <<1, 2>>]
      [] OTHER -> [raised |-> TRUE, a |-> <<0, 1>>, ecco |-> <<0, 1>>]

\* a_km * (1.0 - e) - EARTH_RADIUS_KM, with a_km = a_er * EARTH_RADIUS_KM
PerigeeKm(a_er, e) ==
    LET a_km == RatMul(a_er, EARTH_RADIUS_KM)
    IN  RatSub(RatMul(a_km, RatSub(RatOfInt(1), e)), EARTH_RADIUS_KM)

\* the value returned, or raised = TRUE when the library raises
perigee_alt_km_from_tle(line1, line2) ==
    LET sat == SatModel(line1, line2) IN
    IF sat.raised
    THEN [raised |-> TRUE, km |-> <<0, 1>>]
    ELSE [raised |-> FALSE, km |-> PerigeeKm(sat.a, sat.ecco)]

(***************************************************************************)
(* parse_tle_blocks                                                        *)
(***************************************************************************)
RECURSIVE KeepNonBlank(_)
KeepNonBlank(ls) ==
    IF ls = <<>> THEN <<>>
    ELSE IF strip(Head(ls)) # <<>>
         THEN <<strip(Head(ls))>> \o KeepNonBlank(Tail(ls))
         ELSE KeepNonBlank(Tail(ls))

RECURSIVE KeepNonBlankRaw(_)
KeepNonBlankRaw(ls) ==
    IF ls = <<>> THEN <<>>
    ELSE IF strip(Head(ls)) # <<>>
         THEN <<Head(ls)>> \o KeepNonBlankRaw(Tail(ls))
         ELSE KeepNonBlankRaw(Tail(ls))

\* mutant: the lines are kept untrimmed
StripLines_NoTrim(tle_text) == KeepNonBlankRaw(splitlines(tle_text))

\* [ln.strip() for ln in tle_text.splitlines() if ln.strip()]
StripLines(tle_text) == KeepNonBlank(splitlines(tle_text))

\* while i + 2 < len(lines)         (i counts from 0 as in the source)
ScanMore(ls, c) == c + 2 < Len(ls)

\* mutant: only the first marker is checked
SanityCheck_Line1Only(l1, l2) == startswith(l1, <<"1", SP>>)

\* l1.startswith("1 ") and l2.startswith("2 ")
SanityCheck(l1, l2) ==
    startswith(l1, <<"1", SP>>) /\ startswith(l2, <<"2", SP>>)

\* mutant: the cursor skips three lines on a mismatch too
ScanBody_Skip3(ls, c, o) ==
    IF startswith(ls[c + 2], <<"1", SP>>) /\ startswith(ls[c + 3], <<"2", SP>>)
    THEN <<c + 3, Append(o, <<ls[c + 1], ls[c + 2], ls[c + 3]>>)>>
    ELSE <<c + 3, o>>

\* one pass of the while body: the new <<i, out>>
ScanBody(ls, c, o) ==
    LET name == ls[c + 1]
        l1 == ls[c + 2]
        l2 == ls[c + 3]
    IN  IF SanityCheck(l1, l2)
        THEN <<c + 3, Append(o, <<name, l1, l2>>)>>
        ELSE <<c + 1, o>>

RECURSIVE ScanAll(_, _, _)
ScanAll(ls, c, o) ==
    IF ScanMore(ls, c)
    THEN LET n == ScanBody(ls, c, o) IN ScanAll(ls, n[1], n[2])
    ELSE o

\* the function as a whole
parse_tle_blocks(tle_text) == ScanAll(StripLines(tle_text), 0, <<>>)

(***************************************************************************)
(* filter loop body and export                                             *)
(***************************************************************************)
\* mutant: the bound is exclusive
PassesAlt_Strict(p_km, thr) == ~RatLeq(RatOfInt(thr), p_km)

\* p_km <= perigee_max_km
PassesAlt(p_km, thr) == RatLeq(p_km, RatOfInt(thr))

\* (name_filter.lower() in nm.lower()) if name_filter else True
PassesName(nm, nf) ==
    IF nf # <<>> THEN contains(lower(nm), lower(nf)) ELSE TRUE

\* mutant: a passing record is put at the front of the list
TryBody_Prepend(filt, rec, thr, nf) ==
    LET p == perigee_alt_km_from_tle(rec[2], rec[3]) IN
    IF p.raised
    THEN [raised |-> TRUE, filtered |-> filt]
    ELSE [raised |-> FALSE,
          filtered |-> IF PassesAlt(p.km, thr) /\ PassesName(rec[1], nf)
                       THEN <<rec>> \o filt
                       ELSE filt]

\* the statements inside try: the list afterwards, or raised
TryBody(filt, rec, thr, nf) ==
    LET p == perigee_alt_km_from_tle(rec[2], rec[3]) IN
    IF p.raised
    THEN [raised |-> TRUE, filtered |-> filt]
    ELSE [raised |-> FALSE,
          filtered |-> IF PassesAlt(p.km, thr) /\ PassesName(rec[1], nf)
                       THEN Append(filt, rec)
                       ELSE filt]

\* mutant: the exception leaves the loop
ExceptPass_Raise(res) == [pc |-> "crashed", filtered |-> res.filtered]

\* except Exception: pass  -- the loop goes on with the list as it was
ExceptPass(res) == [pc |-> "filter", filtered |-> res.filtered]

\* mutant: the last line of a record is not terminated
ExportWrite_NoNewline(buf, rec) == buf \o join(<<NL>>, rec)

\* mutant: a blank line separates the records
ExportWrite_BlankSeparator(buf, rec) == buf \o join(<<NL>>, rec) \o <<NL, NL>>

\* export_text.write("\n".join((name, l1, l2)) + "\n")
ExportWrite(buf, rec) == buf \o join(<<NL>>, rec) \o <<NL>>

RECURSIVE ExportAll(_, _)
\* for name, l1, l2 in filtered: ...
ExportAll(buf, recs) ==
    IF recs = <<>> THEN buf
    ELSE ExportAll(ExportWrite(buf, Head(recs)), Tail(recs))

(***************************************************************************)
(* Inputs: what the catalog server may answer, and the sidebar             *)
(***************************************************************************)
\* A chunk of the answer: three lines of a block, a block without its name
\* line, or one line.  name, l1, l2 are the lines as they stand in the text,
\* eol ends each line, gap is put after the first two ends of line.
Block(name, l1, l2, eol, gap) ==
    [kind |-> "block", name |-> name, l1 |-> l1, l2 |-> l2, eol |-> eol, gap |-> gap]

Headless(l1, l2) ==
    [kind |-> "headless", name |-> <<>>, l1 |-> l1, l2 |-> l2, eol |-> <<NL>>, gap |-> <<>>]

Line(text) ==
    [kind |-> "line", name |-> text, l1 |-> <<>>, l2 |-> <<>>, eol |-> <<NL>>, gap |-> <<>>]

Chunks ==
    { Block(<<"A", "b">>, <<"1", SP, "b">>, <<"2", SP, "5">>, <<NL>>, <<>>),
      Block(<<SP, "1", SP, "B", SP>>, <<"1", SP, "b", SP>>, <<SP, "2", SP, "6">>,
            <<CR, NL>>, <<SP, "\t", NL, CR, NL>>),
      Block(<<"a", "B">>, <<"1", SP, "b">>, <<"2", SP, "x">>, <<NL>>, <<>>),
      Block(<<"2", SP, "c">>, <<"1", SP, "b">>, <<"2", SP, "7">>, <<NL>>, <<>>),
      Block(<<"c">>, <<"1", SP>>, <<"2", SP, "5">>, <<NL>>, <<>>),
      Headless(<<"1", SP, "b">>, <<"2", SP, "5">>),
      Line(<<>>),
      Line(<<"c">>),
      Line(<<"1", SP, "b">>),
      Line(<<"2", SP, "7">>) }

\* the text of a chunk
ChunkText(c) ==
    CASE c.kind = "block" ->
            c.name \o c.eol \o c.gap \o c.l1 \o c.eol \o c.gap \o c.l2 \o c.eol
      [] c.kind = "headless" -> c.l1 \o c.eol \o c.l2 \o c.eol
      [] OTHER -> c.name \o c.eol

RECURSIVE LayoutText(_)
\* r.text: the chunks one after the other
LayoutText(lay) ==
    IF lay = <<>> THEN <<>> ELSE ChunkText(Head(lay)) \o LayoutText(Tail(lay))

Layouts == UNION { [1..n -> Chunks] : n \in 0..MaxChunks }

\* st.sidebar.slider(..., 100, 3000, 2000, step=50): values the model tries
Thresholds == {200, 250}

\* st.sidebar.text_input("Name contains (optional)")
NameFilters == { <<>>, <<"B">>, <<"a">> }

\* what requests.get / raise_for_status may do
FetchOutcomes == {"ok", "get_raises", "http_error"}

(***************************************************************************)
(* The run                                                                 *)
(***************************************************************************)
Init ==
    /\ pc = "fetch"
    /\ layout = <<>>
    /\ raw_tle = <<>>
    /\ fetches = 0
    /\ st_error = ""
    /\ perigee_max_km \in Thresholds
    /\ name_filter \in NameFilters
    /\ lines = <<>>
    /\ i = 0
    /\ out = <<>>
    /\ all_blocks = <<>>
    /\ idx = 0
    /\ filtered = <<>>
    /\ export_text = <<>>

\* fetch_tle_text: one requests.get; any exception becomes RuntimeError
fetch_tle_text(outcome, lay) ==
    IF outcome = "ok"
    THEN [raised |-> FALSE, text |-> LayoutText(lay), msg |-> ""]
    ELSE [raised |-> TRUE, text |-> <<>>, msg |-> "Failed to fetch TLE"]

\* mutant: the error is shown and the script goes on with an empty text
OnFetchError_NoStop(r) == [pc |-> "parse", st_error |-> r.msg]

\* except RuntimeError as e: st.error(str(e)); st.stop()
OnFetchError(r) == [pc |-> "stopped", st_error |-> r.msg]

\* try: raw_tle = fetch_tle_text(...)   except RuntimeError: ...
FetchStep(outcome, lay) ==
    LET r == fetch_tle_text(outcome, lay)
        h == OnFetchError(r)
    IN  /\ fetches' = fetches + 1
        /\ IF r.raised
           THEN /\ pc' = h.pc
                /\ st_error' = h.st_error
                /\ UNCHANGED <<layout, raw_tle>>
           ELSE /\ pc' = "parse"
                /\ layout' = lay
                /\ raw_tle' = r.text
                /\ UNCHANGED st_error
        /\ UNCHANGED <<perigee_max_km, name_filter, lines, i, out, all_blocks,
                       idx, filtered, export_text>>

\* source_mode == "Common group": fetch_tle_text(params=params)
FetchGroup ==
    /\ pc = "fetch"
    /\ \E outcome \in FetchOutcomes, lay \in Layouts : FetchStep(outcome, lay)

\* source_mode == "Custom URL": fetch_tle_text(custom_url=custom_url)
FetchCustom ==
    /\ pc = "fetch"
    /\ \E outcome \in FetchOutcomes, lay \in Layouts : FetchStep(outcome, lay)

\* parse_tle_blocks entry: lines, out = [], i = 0
ParseBegin ==
    /\ pc = "parse"
    /\ lines' = StripLines(raw_tle)
    /\ out' = <<>>
    /\ i' = 0
    /\ pc' = "scan"
    /\ UNCHANGED <<layout, raw_tle, fetches, st_error, perigee_max_km, name_filter,
                   all_blocks, idx, filtered, export_text>>

\* one pass of the while loop
ScanStep ==
    /\ pc = "scan"
    /\ ScanMore(lines, i)
    /\ LET n == ScanBody(lines, i, out) IN
        /\ i' = n[1]
        /\ out' = n[2]
    /\ UNCHANGED <<pc, layout, raw_tle, fetches, st_error, perigee_max_km,
                   name_filter, lines, all_blocks, idx, filtered, export_text>>

\* return out; all_blocks = ...; filtered = []
ParseReturn ==
    /\ pc = "scan"
    /\ ~ScanMore(lines, i)
    /\ all_blocks' = out
    /\ filtered' = <<>>
    /\ idx' = 0
    /\ pc' = "filter"
    /\ UNCHANGED <<layout, raw_tle, fetches, st_error, perigee_max_km, name_filter,
                   lines, i, out, export_text>>

\* one pass of: for idx, (nm, l1, l2) in enumerate(all_blocks)
FilterStep ==
    /\ pc = "filter"
    /\ idx < Len(all_blocks)
    /\ LET res == TryBody(filtered, all_blocks[idx + 1], perigee_max_km, name_filter)
           nxt == IF res.raised THEN ExceptPass(res)
                  ELSE [pc |-> "filter", filtered |-> res.filtered]
       IN  /\ filtered' = nxt.filtered
           /\ pc' = nxt.pc
    /\ idx' = idx + 1
    /\ UNCHANGED <<layout, raw_tle, fetches, st_error, perigee_max_km, name_filter,
                   lines, i, out, all_blocks, export_text>>

\* after the loop: export_text is written from filtered
Export ==
    /\ pc = "filter"
    /\ idx = Len(all_blocks)
    /\ export_text' = ExportAll(<<>>, filtered)
    /\ pc' = "done"
    /\ UNCHANGED <<layout, raw_tle, fetches, st_error, perigee_max_km, name_filter,
                   lines, i, out, all_blocks, idx, filtered>>

Next ==
    \/ FetchGroup
    \/ FetchCustom
    \/ ParseBegin
    \/ ScanStep
    \/ ParseReturn
    \/ FilterStep
    \/ Export

Spec == Init /\ [][Next]_vars

(***************************************************************************)
(* Vocabulary of the properties                                            *)
(***************************************************************************)
Marker1 == <<"1", SP>>
Marker2 == <<"2", SP>>

IsBlankLine(c) == c.kind = "line" /\ strip(c.name) = <<>>

\* a block as the text states it: a non-blank name line, a line starting
\* with "1 ", a line starting with "2 "
LiteralBlock(c) ==
    /\ c.kind = "block"
    /\ strip(c.name) # <<>>
    /\ startswith(c.l1, Marker1)
    /\ startswith(c.l2, Marker2)

\* a block whose lines carry the markers once trimmed
TrimmedBlock(c) ==
    /\ c.kind = "block"
    /\ strip(c.name) # <<>>
    /\ startswith(strip(c.l1), Marker1)
    /\ startswith(strip(c.l2), Marker2)

Triple(c) == <<strip(c.name), strip(c.l1), strip(c.l2)>>

RECURSIVE TriplesOf(_, _)
\* the triples of the chunks of lay that are in the set keep, in order
TriplesOf(lay, keep) ==
    IF lay = <<>> THEN <<>>
    ELSE IF Head(lay) \in keep
         THEN <<Triple(Head(lay))>> \o TriplesOf(Tail(lay), keep)
         ELSE TriplesOf(Tail(lay), keep)

RECURSIVE IsSubseq(_, _)
\* s is t with some positions left out
IsSubseq(s, t) ==
    \/ s = <<>>
    \/ /\ t # <<>>
       /\ IF Head(s) = Head(t)
          THEN IsSubseq(Tail(s), Tail(t))
          ELSE IsSubseq(s, Tail(t))

Range(s) == { s[k] : k \in 1..Len(s) }

Parsed == pc \in {"filter", "done"}

LiteralBlocks == { c \in Chunks : LiteralBlock(c) }
TrimmedBlocks == { c \in Chunks : TrimmedBlock(c) }
BlankLines == { c \in Chunks : IsBlankLine(c) }

(***************************************************************************)
(* C1                                                                      *)
(***************************************************************************)
\* C1 as stated: when the answer is made only of blocks (a non-blank name
\* line, a line starting with "1 ", a line starting with "2 ") and blank
\* lines, the parser returns one record per block, in order.
C1_AsStated ==
    (Parsed /\ Range(layout) \subseteq LiteralBlocks \cup BlankLines)
        => all_blocks = TriplesOf(layout, LiteralBlocks)

\* C1 amended: when the answer is made only of blocks whose second and
\* third line start with "1 " and "2 " after trimming, and of blank or
\* whitespace-only lines anywhere between lines, the parser returns exactly
\* one record per block: its trimmed name, line1 and line2, in input order.
C1_ParseCompleteness ==
    (Parsed /\ Range(layout) \subseteq TrimmedBlocks \cup BlankLines)
        => /\ all_blocks = TriplesOf(layout, TrimmedBlocks)
           /\ parse_tle_blocks(raw_tle) = all_blocks

C1_Witness ==
    /\ Parsed
    /\ Range(layout) \subseteq TrimmedBlocks \cup BlankLines
    /\ Len(all_blocks) = 2
    /\ \E c \in Range(layout) : IsBlankLine(c)
    /\ \E c \in Range(layout) : TrimmedBlock(c) /\ c.gap # <<>> /\ c.l2 # strip(c.l2)

(***************************************************************************)
(* C9                                                                      *)
(***************************************************************************)
WellFormed(rec) == startswith(rec[2], Marker1) /\ startswith(rec[3], Marker2)

\* C9: for any input, in every state of the scan and in the result every
\* emitted record has a line1 starting with "1 " and a line2 starting with
\* "2 "; a record is emitted only from three consecutive lines at the cursor,
\* and the cursor then advances by 3, so records never share a line.
C9_RecordWellFormed ==
    /\ [](/\ \A k \in 1..Len(out) : WellFormed(out[k])
          /\ \A k \in 1..Len(all_blocks) : WellFormed(all_blocks[k])
          /\ 3 * Len(out) <= i)
    /\ [][(pc = "scan" /\ out' # out)
            => /\ i' = i + 3
               /\ out' = Append(out, <<lines[i + 1], lines[i + 2], lines[i + 3]>>)]_vars

C9_Witness ==
    /\ pc = "scan"
    /\ Len(out) >= 1
    /\ i > 3 * Len(out)
    /\ \E c \in Range(layout) : ~TrimmedBlock(c) /\ ~IsBlankLine(c)

(***************************************************************************)
(* C6                                                                      *)
(***************************************************************************)
\* one damaged place: a stray non-blank line, or a block without its name line
Damage(c) == (c.kind = "line" /\ ~IsBlankLine(c)) \/ c.kind = "headless"

DamageCount(lay) == Cardinality({ k \in 1..Len(lay) : Damage(lay[k]) })

\* valid block A, one corrupted line, valid block B
ABLayout ==
    /\ Len(layout) = 3
    /\ TrimmedBlock(layout[1])
    /\ layout[2].kind = "line" /\ ~IsBlankLine(layout[2])
    /\ TrimmedBlock(layout[3])

\* C6: after valid block A, one corrupted line and valid block B the parser
\* yields A and B; on a mismatch the cursor advances by exactly one line and
\* emits nothing; and when the answer is valid blocks and blank lines with at
\* most one stray line or one missing name line, no valid block is lost.
C6_Resynchronization ==
    /\ []((Parsed /\ ABLayout)
            => all_blocks = <<Triple(layout[1]), Triple(layout[3])>>)
    /\ []((/\ Parsed
           /\ \A k \in 1..Len(layout) :
                 TrimmedBlock(layout[k]) \/ IsBlankLine(layout[k]) \/ Damage(layout[k])
           /\ DamageCount(layout) <= 1)
            => IsSubseq(TriplesOf(layout, TrimmedBlocks), all_blocks))
    /\ [][(pc = "scan" /\ pc' = "scan" /\ ~SanityCheck(lines[i + 2], lines[i + 3]))
            => (i' = i + 1 /\ out' = out)]_vars

C6_Witness ==
    /\ Parsed
    /\ ABLayout
    /\ Len(all_blocks) = 2
    /\ all_blocks[1] # all_blocks[2]

(***************************************************************************)
(* C3, C4, C5: the filter loop                                             *)
(***************************************************************************)
Computed(rec) == ~perigee_alt_km_from_tle(rec[2], rec[3]).raised

AltKm(rec) == perigee_alt_km_from_tle(rec[2], rec[3]).km

\* altitude = k km exactly
AltIs(rec, k) == Computed(rec) /\ AltKm(rec)[1] = k * AltKm(rec)[2]

\* altitude <= threshold, and the name filter is empty or found in the name
\* without regard to case
ShouldPass(rec) ==
    /\ AltKm(rec)[1] <= perigee_max_km * AltKm(rec)[2]
    /\ (name_filter = <<>> \/ contains(lower(rec[1]), lower(name_filter)))

\* C3: a record whose altitude is computed without error is appended to the
\* filtered list exactly when altitude <= threshold (inclusive) and the name
\* filter is empty or its lower-cased text is in the lower-cased name;
\* otherwise the list is left as it was.
C3_PassPredicate ==
    [][(pc = "filter" /\ idx < Len(all_blocks) /\ Computed(all_blocks[idx + 1]))
        => IF ShouldPass(all_blocks[idx + 1])
           THEN filtered' = Append(filtered, all_blocks[idx + 1])
           ELSE filtered' = filtered]_vars

C3_Witness ==
    /\ pc = "done"
    /\ name_filter # <<>>
    /\ \E r \in Range(filtered) : AltIs(r, perigee_max_km)
    /\ \E r \in Range(all_blocks) :
          /\ AltIs(r, perigee_max_km + 1)
          /\ contains(lower(r[1]), lower(name_filter))
          /\ r \notin Range(filtered)
    /\ \E r \in Range(all_blocks) :
          /\ Computed(r)
          /\ ShouldPass(r) = FALSE
          /\ AltKm(r)[1] <= perigee_max_km * AltKm(r)[2]

\* the records among the first n parsed ones whose altitude is computed
ComputedPrefix(n) == SelectSeq(SubSeq(all_blocks, 1, n), Computed)

\* C4: a record whose perigee computation fails is left out, no error leaves
\* the loop, the loop visits every record, and the filtered list is what the
\* pass predicate selects from the batch with the failing records removed.
C4_Isolation ==
    /\ pc # "crashed"
    /\ Parsed =>
          /\ filtered = SelectSeq(ComputedPrefix(idx), ShouldPass)
          /\ \A r \in Range(filtered) : Computed(r)
    /\ pc = "done" => idx = Len(all_blocks)

C4_Witness ==
    /\ pc = "done"
    /\ Len(all_blocks) = 3
    /\ ~Computed(all_blocks[2])
    /\ filtered = <<all_blocks[1], all_blocks[3]>>

\* C5: during the filter loop and after it the filtered list is the parsed
\* list with some positions left out: same records, same relative order,
\* each position used at most once; so it is never longer than the parsed list.
C5_StableFilter ==
    Parsed =>
       /\ idx <= Len(all_blocks)
       /\ IsSubseq(filtered, SubSeq(all_blocks, 1, idx))
       /\ Len(filtered) <= idx

C5_Witness ==
    /\ pc = "done"
    /\ Len(all_blocks) = 3
    /\ Len(filtered) = 2
    /\ filtered[1] # filtered[2]
    /\ filtered[1] = all_blocks[1]

(***************************************************************************)
(* C2, C8: the export text                                                 *)
(***************************************************************************)
RECURSIVE Flatten(_)
\* name, line1, line2 of every record, in order
Flatten(recs) ==
    IF recs = <<>> THEN <<>> ELSE Head(recs) \o Flatten(Tail(recs))

RECURSIVE SumLen(_)
SumLen(ls) == IF ls = <<>> THEN 0 ELSE Len(Head(ls)) + SumLen(Tail(ls))

Breaks(t) == Cardinality({ k \in 1..Len(t) : t[k] = NL })

\* C2: parsing the export text gives back the filtered list, record by record.
C2_RoundTrip ==
    pc = "done" => parse_tle_blocks(export_text) = filtered

C2_Witness ==
    /\ pc = "done"
    /\ Range(layout) \subseteq TrimmedBlocks \cup BlankLines
    /\ Len(filtered) = 2
    /\ Len(all_blocks) = 3
    /\ parse_tle_blocks(export_text) = filtered

\* C8: the export text is name, line1, line2 of each filtered record in
\* order, each followed by exactly one line break: 3 * n breaks, no blank
\* line, nothing after the last break, and the empty text for an empty list.
C8_ExportFormat ==
    pc = "done" =>
       /\ splitlines(export_text) = Flatten(filtered)
       /\ Breaks(export_text) = 3 * Len(filtered)
       /\ Len(export_text) = SumLen(Flatten(filtered)) + 3 * Len(filtered)
       /\ \A k \in 1..Len(splitlines(export_text)) : splitlines(export_text)[k] # <<>>
       /\ export_text # <<>> => export_text[Len(export_text)] = NL
       /\ filtered = <<>> => export_text = <<>>

C8_Witness ==
    /\ pc = "done"
    /\ Len(filtered) = 2
    /\ Breaks(export_text) = 6

(***************************************************************************)
(* C7: the fetch                                                           *)
(***************************************************************************)
\* C7: the fetch is attempted once; when it fails the error is shown and the
\* run stops there: nothing is parsed, filtered or exported, and no step
\* follows.
C7_FetchFailureStops ==
    /\ [](/\ fetches <= 1
          /\ st_error # "" => pc = "stopped"
          /\ pc = "stopped" =>
                /\ st_error = "Failed to fetch TLE"
                /\ fetches = 1
                /\ raw_tle = <<>> /\ lines = <<>> /\ all_blocks = <<>>
                /\ filtered = <<>> /\ export_text = <<>>)
    /\ [][pc # "stopped"]_vars

C7_Witness ==
    /\ pc = "stopped"
    /\ fetches = 1
    /\ st_error # ""

====
